---- MODULE Spec2Model ----
(***************************************************************************)
(* Model of trip_planner: LLMHandler (recommendation generator),           *)
(* GeocodingHandler (coordinate resolver), MapHandler (presentation) and   *)
(* the Streamlit script main() that composes them.                         *)
(*                                                                         *)
(* A Python dict is a function whose DOMAIN is the set of keys present.    *)
(* A JSON / Python value is a tagged record:                               *)
(*   [k |-> "none"]            None                                        *)
(*   [k |-> "num", n |-> 7]    a number                                    *)
(*   [k |-> "obj", d |-> dict] an object                                   *)
(*   [k |-> "arr", a |-> seq]  a list                                      *)
(* A text is a sequence of tokens; an element token stands for the JSON    *)
(* literal of one value, "{" v "}" for the literal {"items": v}, "p" for   *)
(* a word of prose and " " for white space.                                *)
(***************************************************************************)
EXTENDS Integers, Sequences, FiniteSets, TLC

VARIABLES
    pc,                 \* position of the running script / handler
    outstanding,        \* requests sent to an external service and not yet answered
    \* LLMHandler.get_recommendations
    llmRequests,        \* requests sent to the text-generation API in this call
    path,               \* "none" | "chain" | "fallback": branch get_recommendations took
    llmErr,             \* the last text-generation request raised
    response,           \* get_recommendations: value returned by chain.invoke
    fb_response,        \* _fallback_request: text returned by llm.invoke
    genResult,          \* outcome of get_recommendations: [raised, val]
    \* main, locals of the current script run
    submitted,          \* the "Get Recommendations" button started this run
    location,           \* the Destination text input
    spots_data,         \* value returned by get_recommendations
    \* GeocodingHandler
    idx,                \* get_coordinates: 1-based position of `spot` in spots_data
    spots_with_coords,  \* get_coordinates: the list being built
    spot_name,          \* _geocode_spot: parameter
    qi,                 \* _geocode_spot: 1-based position of `query` in search_queries
    issued,             \* queries sent for the current candidate, in order
    lastResp,           \* response to the last query of the current candidate
    firstMatch,         \* per candidate looked up so far: <<>> or <<the first response
                        \* holding a usable result>>
    geoRequests,        \* geocoding requests sent in this script run
    queryLog,           \* get_coordinates called by itself: the requests sent by
                        \* this call, in order
    \* st.session_state and the rendered page
    session,            \* [spots_with_coords, current_location]
    stages,             \* handlers called in this script run, in call order
    messages,           \* st.error texts shown by this script run
    map_obj,            \* value returned by create_map in this script run
    details,            \* expanders rendered in this script run
    fault,              \* uncaught exception that ended this script run, or "none"
    clearShown,         \* the "Clear Results" button is on the page
    \* callers of a single handler
    stub,               \* the geocoding service as a function of the query
    spots_arg,          \* the candidates as they were passed to get_coordinates
    callNo,             \* calls of get_coordinates made so far
    out1,               \* outcome of the first call of get_coordinates
    log1,               \* requests sent by the first call of get_coordinates
    map_in              \* the list passed to create_map

genVars == <<llmRequests, path, llmErr, response, fb_response, genResult>>
geoVars == <<idx, spots_with_coords, spot_name, qi, issued, lastResp, firstMatch,
            geoRequests, queryLog>>
runVars == <<submitted, location, spots_data>>
uiVars == <<session, stages, messages, map_obj, details, fault, clearShown>>
callerVars == <<stub, spots_arg, callNo, out1, log1, map_in>>
vars == <<pc, outstanding, genVars, runVars, geoVars, uiVars, callerVars>>

-----------------------------------------------------------------------------
(* Bounds *)

MaxTextLen == 5      \* longest text-generation output, in tokens
MaxSpots == 2        \* most items in an array the whole pipeline is run on
MaxMapSpots == 6     \* longest list create_map is called on by itself
MaxSessionSpots == 2 \* most items in an array when two destinations are in use
FloatBits == 4       \* significant bits of a float (a Python float has 53)

-----------------------------------------------------------------------------
(* Python / JSON values *)

PyNone == [k |-> "none"]
PyNum(x) == [k |-> "num", n |-> x]
PyObj(dict) == [k |-> "obj", d |-> dict]
PyList(s) == [k |-> "arr", a |-> s]

\* bool(v) as Python evaluates `if v:`
Truthy(v) ==
    CASE v.k = "none" -> FALSE
      [] v.k = "num" -> v.n # 0
      [] v.k = "obj" -> DOMAIN v.d # {}
      [] v.k = "arr" -> Len(v.a) > 0

\* outcome of evaluating a Python expression or call
Returned(v) == [raised |-> FALSE, val |-> v]
Raised == [raised |-> TRUE, val |-> PyNone]

-----------------------------------------------------------------------------
(* Texts produced by the text-generation API *)

ElemTokens == {"oFull", "oNoRem", "oNoName", "oEmptyName", "num"}
Tokens == ElemTokens \cup {"[", "]", ",", "{", "}", "p", " "}

\* the value denoted by the JSON literal an element token stands for
TokenValue(t) ==
    CASE t = "oFull"      -> PyObj([name |-> "A", type |-> "t", remarks |-> "r"])
      [] t = "oNoRem"     -> PyObj([name |-> "B", type |-> "t"])
      [] t = "oNoName"    -> PyObj([type |-> "t", remarks |-> "r"])
      [] t = "oEmptyName" -> PyObj([name |-> "", type |-> "t", remarks |-> "r"])
      [] t = "num"        -> PyNum(7)

BSeq(S, n) == UNION {[1..m -> S] : m \in 0..n}

\* the tokens that differ for parsing and for the shape of an element
GenTokens == Tokens \ {"oNoRem"}

\* an outcome of one request to the text-generation API: it raised, or it
\* returned a text
LLMError == [err |-> TRUE, text |-> <<>>]
LLMText(t) == [err |-> FALSE, text |-> t]
LLMOutcomes(T) == {LLMError} \cup {LLMText(t) : t \in T}

-----------------------------------------------------------------------------
(* str.strip, str.startswith, str.find, str.rfind, slicing *)

RECURSIVE LStrip(_)
LStrip(s) == IF s # <<>> /\ Head(s) = " " THEN LStrip(Tail(s)) ELSE s

RECURSIVE RStrip(_)
RStrip(s) == IF s # <<>> /\ s[Len(s)] = " " THEN RStrip(SubSeq(s, 1, Len(s) - 1)) ELSE s

Strip(s) == RStrip(LStrip(s))

StartsWith(s, c) == s # <<>> /\ Head(s) = c

\* 0-based index of the first / last occurrence of c, or -1
Find(s, c) ==
    IF \E i \in 1..Len(s) : s[i] = c
    THEN (CHOOSE i \in 1..Len(s) : s[i] = c /\ \A j \in 1..(i - 1) : s[j] # c) - 1
    ELSE -1

RFind(s, c) ==
    IF \E i \in 1..Len(s) : s[i] = c
    THEN (CHOOSE i \in 1..Len(s) : s[i] = c /\ \A j \in (i + 1)..Len(s) : s[j] # c) - 1
    ELSE -1

\* s[start:end] for 0 <= start, 0 <= end
Slice(s, start, end) == SubSeq(s, start + 1, IF end > Len(s) THEN Len(s) ELSE end)

-----------------------------------------------------------------------------
(* json.loads *)

ParseFail == [ok |-> FALSE, val |-> PyNone, rest |-> <<>>]
ParseOk(v, r) == [ok |-> TRUE, val |-> v, rest |-> r]

RECURSIVE ParseValue(_)
RECURSIVE ParseItems(_, _)

\* one JSON value at the front of s, leading whitespace skipped
ParseValue(s) ==
    LET t == LStrip(s) IN
    IF t = <<>> THEN ParseFail
    ELSE IF Head(t) \in ElemTokens THEN ParseOk(TokenValue(Head(t)), Tail(t))
    ELSE IF Head(t) = "["
         THEN LET u == LStrip(Tail(t)) IN
              IF u # <<>> /\ Head(u) = "]"
              THEN ParseOk(PyList(<<>>), Tail(u))
              ELSE ParseItems(u, <<>>)
    ELSE IF Head(t) = "{"
         THEN LET u == LStrip(Tail(t)) IN
              IF u # <<>> /\ Head(u) = "}"
              THEN ParseOk(PyObj(<<>>), Tail(u))
              ELSE LET r == ParseValue(u)
                       w == LStrip(r.rest)
                   IN  IF r.ok /\ w # <<>> /\ Head(w) = "}"
                       THEN ParseOk(PyObj([items |-> r.val]), Tail(w))
                       ELSE ParseFail
    ELSE ParseFail

\* the elements of an array after "[", acc the elements read so far
ParseItems(s, acc) ==
    LET r == ParseValue(s) IN
    IF ~r.ok THEN ParseFail
    ELSE LET u == LStrip(r.rest) IN
         IF u = <<>> THEN ParseFail
         ELSE IF Head(u) = "," THEN ParseItems(Tail(u), Append(acc, r.val))
         ELSE IF Head(u) = "]" THEN ParseOk(PyList(Append(acc, r.val)), Tail(u))
         ELSE ParseFail

\* json.loads(s): the whole text is one JSON value, else JSONDecodeError
JsonLoads(s) ==
    LET r == ParseValue(s) IN
    IF r.ok /\ LStrip(r.rest) = <<>> THEN Returned(r.val) ELSE Raised

-----------------------------------------------------------------------------
(* Requests to the external services *)

\* a request in flight: api is "llm" or "geo"; cand and query are the
\* candidate position and the query string of a geocoding request
Request(api, cand, query) == [api |-> api, cand |-> cand, query |-> query]

\* the request is handed to a background worker: the caller goes on while up
\* to two requests are in flight
MaySend_Async(out) == Len(out) < 2

\* chain.invoke, llm.invoke and requests.get are blocking calls: the caller
\* reaches its next statement only when the response (or the exception) of
\* the call is there, so it sends only while nothing of its own is in flight
MaySend(out) == out = <<>>

-----------------------------------------------------------------------------
(* LLMHandler *)

\* chain.invoke: the request, then JsonOutputParser on the output, taken to
\* be a strict JSON parse of the stripped text that raises on anything else
ChainInvokeResult(o) ==
    IF o.err THEN Raised ELSE JsonLoads(Strip(o.text))

\* the response returned as it is
WrapResponse_NoWrap(r) == r

\* "Handle both single object and list responses"
WrapResponse(r) == IF r.k = "arr" THEN r ELSE PyList(<<r>>)

\* body of the try block of _fallback_request after llm.invoke returned text
FallbackBody(text) ==
    LET response_text == Strip(text) IN
    IF StartsWith(response_text, "[")
    THEN JsonLoads(response_text)
    ELSE LET start == Find(response_text, "[")
             end == RFind(response_text, "]") + 1
         IN  IF start # -1 /\ end # 0
             THEN JsonLoads(Slice(response_text, start, end))
             ELSE Returned(PyNone)

\* no except clause: the exception leaves _fallback_request
FallbackExcept_Propagate(r) == r

\* `except Exception: return None` of _fallback_request
FallbackExcept(r) == IF r.raised THEN Returned(PyNone) ELSE r

\* where get_recommendations goes after chain.invoke
AfterChain(r) == IF r.raised THEN "gen_fallback" ELSE "gen_ret"

\* where _fallback_request goes after llm.invoke
AfterFallbackInvoke(o) == IF o.err THEN "gen_ret" ELSE "gen_parse"

GenReset ==
    /\ llmRequests' = 0
    /\ path' = "none"
    /\ response' = PyNone
    /\ llmErr' = FALSE
    /\ fb_response' = <<>>
    /\ genResult' = Returned(PyNone)

\* chain.invoke / llm.invoke: the request leaves for the text-generation API
LLMSend ==
    /\ pc \in {"gen_chain", "gen_fallback"}
    /\ MaySend(outstanding)
    /\ outstanding' = Append(outstanding, Request("llm", 0, ""))
    /\ llmRequests' = llmRequests + 1
    /\ UNCHANGED <<pc, path, llmErr, response, fb_response, genResult,
                   runVars, geoVars, uiVars, callerVars>>

\* get_recommendations, try block: chain.invoke answered with o, and the
\* list / object handling
ChainInvoke(o) ==
    /\ pc = "gen_chain"
    /\ outstanding # <<>>
    /\ outstanding' = Tail(outstanding)
    /\ LET r == ChainInvokeResult(o) IN
       /\ pc' = AfterChain(r)
       /\ path' = IF r.raised THEN "fallback" ELSE "chain"
       /\ response' = r.val
       /\ llmErr' = o.err
       /\ genResult' = IF r.raised THEN genResult ELSE Returned(WrapResponse(r.val))
       /\ UNCHANGED <<llmRequests, fb_response, runVars, geoVars, uiVars, callerVars>>

\* _fallback_request: llm.invoke(simple_prompt) answered with o
FallbackInvoke(o) ==
    /\ pc = "gen_fallback"
    /\ outstanding # <<>>
    /\ outstanding' = Tail(outstanding)
    /\ pc' = AfterFallbackInvoke(o)
    /\ fb_response' = o.text
    /\ llmErr' = o.err
    /\ genResult' = IF o.err THEN FallbackExcept(Raised) ELSE genResult
    /\ UNCHANGED <<llmRequests, path, response, runVars, geoVars, uiVars, callerVars>>

\* _fallback_request: extraction of the JSON array from the response text
FallbackParse ==
    /\ pc = "gen_parse"
    /\ pc' = "gen_ret"
    /\ genResult' = FallbackExcept(FallbackBody(fb_response))
    /\ UNCHANGED <<outstanding, llmRequests, path, llmErr, response, fb_response,
                   runVars, geoVars, uiVars, callerVars>>

-----------------------------------------------------------------------------
(* GeocodingHandler *)

\* a response of the geocoding service to requests.get; exc: requests.get raised
GeoResp(exc, status, text, data) == [exc |-> exc, status |-> status, text |-> text, data |-> data]

NoResp == GeoResp(FALSE, 0, "", PyNone)

\* text: "" and " " are blank bodies, "<html>" is not JSON, "json" is the JSON
\* document whose value is data
GeoResponses ==
    { GeoResp(TRUE, 0, "", PyNone),
      GeoResp(FALSE, 500, "json", PyList(<<>>)),
      GeoResp(FALSE, 200, " ", PyNone),
      GeoResp(FALSE, 200, "<html>", PyNone),
      GeoResp(FALSE, 200, "json", PyList(<<>>)),
      GeoResp(FALSE, 200, "json", PyList(<<[lon |-> "20"]>>)),
      GeoResp(FALSE, 200, "json", PyList(<<[lat |-> "x", lon |-> "20"]>>)),
      GeoResp(FALSE, 200, "json", PyList(<<[lat |-> "10", lon |-> "20"]>>)),
      GeoResp(FALSE, 200, "json", PyList(<<[lat |-> "10", lon |-> "20"], [lat |-> "20", lon |-> "10"]>>)) }

\* three of them: the request raised, no result, one result
StubResponses ==
    { GeoResp(TRUE, 0, "", PyNone),
      GeoResp(FALSE, 200, "json", PyList(<<>>)),
      GeoResp(FALSE, 200, "json", PyList(<<[lat |-> "10", lon |-> "20"]>>)) }

\* float(s): the number a numeric string denotes, ValueError otherwise
Float(s) ==
    CASE s = "10" -> Returned(PyNum(10))
      [] s = "20" -> Returned(PyNum(20))
      [] OTHER -> Raised

\* search_queries of _geocode_spot
SearchQueries(name, loc) == << name \o ", " \o loc, name, loc \o " " \o name >>

\* v[key] for a dict key
GetItem(v, key) ==
    IF v.k = "obj" /\ key \in DOMAIN v.d THEN Returned(v.d[key]) ELSE Raised

\* data[-1] read instead of data[0]
FirstResultCoords_Last(data) ==
    IF data.k # "arr" THEN Raised
    ELSE LET last == data.a[Len(data.a)] IN
         IF "lat" \notin DOMAIN last \/ "lon" \notin DOMAIN last THEN Raised
         ELSE LET lat == Float(last.lat)
                  lon == Float(last.lon)
              IN  IF lat.raised \/ lon.raised THEN Raised
                  ELSE Returned([lat |-> lat.val.n, lon |-> lon.val.n])

\* the dict built from data[0] of a response, or the exception raised on the way
FirstResultCoords(data) ==
    IF data.k # "arr" THEN Raised
    ELSE LET first == data.a[1] IN
         IF "lat" \notin DOMAIN first \/ "lon" \notin DOMAIN first THEN Raised
         ELSE LET lat == Float(first.lat)
                  lon == Float(first.lon)
              IN  IF lat.raised \/ lon.raised THEN Raised
                  ELSE Returned([lat |-> lat.val.n, lon |-> lon.val.n])

\* one iteration of the query loop of _geocode_spot on the response r:
\* found with the coordinates, or not found (continue / fall through)
NotFound == [found |-> FALSE, coords |-> [lat |-> 0, lon |-> 0]]
GeocodeAttempt(r) ==
    IF r.exc THEN NotFound
    ELSE IF r.status # 200 THEN NotFound
    ELSE IF r.text \in {"", " "} THEN NotFound
    ELSE IF r.text # "json" THEN NotFound
    ELSE IF Truthy(r.data) /\ (r.data.k = "arr" => Len(r.data.a) > 0)
         THEN LET c == FirstResultCoords(r.data) IN
              IF c.raised THEN NotFound ELSE [found |-> TRUE, coords |-> c.val]
         ELSE NotFound

\* the service answered with at least one result whose lat and lon are numeric
\* strings (what the Nominatim search endpoint returns for a place it knows)
IsMatch(r) ==
    /\ ~r.exc
    /\ r.status = 200
    /\ r.text = "json"
    /\ r.data.k = "arr"
    /\ r.data.a # <<>>
    /\ {"lat", "lon"} \subseteq DOMAIN r.data.a[1]
    /\ r.data.a[1].lat \in {"10", "20"}
    /\ r.data.a[1].lon \in {"10", "20"}

\* spot.copy() followed by spot_with_coords['coordinates'] = coords
CopyWithCoords(spot, coords) ==
    [key \in DOMAIN spot \cup {"coordinates"} |->
        IF key = "coordinates" THEN coords ELSE spot[key]]

\* no return on a match: all three queries are always sent
AfterAttempt_NoStop(found, q) ==
    IF q >= 3 THEN "geo_loop" ELSE "geo_query"

\* where _geocode_spot goes after one query: back to get_coordinates, or on
AfterAttempt(found, q) ==
    IF found \/ q >= 3 THEN "geo_loop" ELSE "geo_query"

\* get_coordinates, loop head: `for spot in spots_data` and spot['name']
GeoLoopHead ==
    /\ pc = "geo_loop"
    /\ idx <= Len(spots_data.a)
    /\ LET n == GetItem(spots_data.a[idx], "name") IN
       IF n.raised
       THEN /\ pc' = "idle"
            /\ fault' = "get_coordinates"
            /\ clearShown' = FALSE
            /\ UNCHANGED <<spot_name, qi, issued, lastResp, firstMatch>>
       ELSE /\ pc' = "geo_query"
            /\ spot_name' = n.val
            /\ qi' = 1
            /\ issued' = <<>>
            /\ lastResp' = NoResp
            /\ firstMatch' = Append(firstMatch, <<>>)
            /\ UNCHANGED <<fault, clearShown>>
    /\ UNCHANGED <<outstanding, genVars, runVars, idx, spots_with_coords, geoRequests,
                   queryLog, session, stages, messages, map_obj, details, callerVars>>

\* _geocode_spot: requests.get leaves for the geocoding service with the
\* query of this iteration of `for query in search_queries`
GeoSend ==
    /\ pc = "geo_query"
    /\ MaySend(outstanding)
    /\ LET query == SearchQueries(spot_name, location)[qi] IN
       /\ outstanding' = Append(outstanding, Request("geo", idx, query))
       /\ queryLog' = IF callNo > 0
                      THEN Append(queryLog, [cand |-> idx, query |-> query])
                      ELSE queryLog
    /\ geoRequests' = geoRequests + 1
    /\ UNCHANGED <<pc, genVars, runVars, idx, spots_with_coords, spot_name, qi, issued,
                   lastResp, firstMatch, uiVars, callerVars>>

\* `spot_with_coords = spot`: no copy, the coordinates go into the candidate
SpotAfterCopy_Alias(spot, coords) == CopyWithCoords(spot, coords)

\* the dict `spot` of the caller's list after lines 100-101: the coordinates
\* are written into the copy, the candidate itself is not touched
SpotAfterCopy(spot, coords) == spot

\* _geocode_spot: the rest of the iteration once requests.get is answered
\* with r, and on its return the rest of the loop body of get_coordinates
GeoQuery(r) ==
    /\ pc = "geo_query"
    /\ outstanding # <<>>
    /\ outstanding' = Tail(outstanding)
    /\ LET a == GeocodeAttempt(r)
           done == AfterAttempt(a.found, qi) = "geo_loop"
           spot == spots_data.a[idx].d
       IN  /\ issued' = Append(issued, Head(outstanding).query)
           /\ lastResp' = r
           /\ pc' = AfterAttempt(a.found, qi)
           /\ qi' = IF done THEN qi ELSE qi + 1
           /\ idx' = IF done THEN idx + 1 ELSE idx
           /\ spots_with_coords' =
                 IF a.found
                 THEN Append(spots_with_coords, CopyWithCoords(spot, a.coords))
                 ELSE spots_with_coords
           /\ spots_data' =
                 IF a.found
                 THEN [spots_data EXCEPT !.a[idx] = PyObj(SpotAfterCopy(spot, a.coords))]
                 ELSE spots_data
           /\ firstMatch' =
                 IF firstMatch[idx] = <<>> /\ IsMatch(r)
                 THEN [firstMatch EXCEPT ![idx] = <<r>>]
                 ELSE firstMatch
    /\ UNCHANGED <<genVars, submitted, location, spot_name, geoRequests, queryLog,
                   uiVars, callerVars>>

-----------------------------------------------------------------------------
(* MapHandler *)

Colors == <<"red", "blue", "green", "purple", "orange">>

\* Python floats are binary floating point numbers: a result is rounded to
\* the nearest number with FloatBits significant bits, ties to the even one.
\* The numbers of the model are multiples of the smallest spacing, 1.
RECURSIVE Spacing(_, _)
Spacing(q, u) == IF q < (2 ^ FloatBits) * u THEN u ELSE Spacing(q, 2 * u)

\* the float nearest to num / den
RoundDiv(num, den) ==
    LET u == Spacing(num \div den, 1)
        k == num \div (den * u)
        rem == num - k * den * u
    IN  IF 2 * rem < den * u THEN k * u
        ELSE IF 2 * rem > den * u THEN (k + 1) * u
        ELSE IF k % 2 = 0 THEN k * u ELSE (k + 1) * u

\* sum(xs): the items added from left to right, every addition rounded
RECURSIVE Sum(_, _)
Sum(xs, acc) == IF xs = <<>> THEN acc ELSE Sum(Tail(xs), RoundDiv(acc + Head(xs), 1))

\* sum(xs) / len(xs)
Mean(xs) == RoundDiv(Sum(xs, 0), Len(xs))

\* d.get(key, default)
Get(d, key, default) == IF key \in DOMAIN d THEN d[key] ELSE default

\* the filter also asks for a name
IsValidSpot_Named(spot) ==
    /\ "name" \in DOMAIN spot
    /\ "coordinates" \in DOMAIN spot
    /\ "lat" \in DOMAIN spot.coordinates
    /\ "lon" \in DOMAIN spot.coordinates

\* the condition of the valid_spots comprehension
IsValidSpot(spot) ==
    /\ "coordinates" \in DOMAIN spot
    /\ "lat" \in DOMAIN spot.coordinates
    /\ "lon" \in DOMAIN spot.coordinates

\* `colors[i % (len(colors) - 1)]`: the last colour is never used
Marker_ShortCycle(i, spot) ==
    [location |-> <<spot.coordinates.lat, spot.coordinates.lon>>,
     popup |-> "<b>" \o Get(spot, "name", "Unknown") \o "</b><br>"
                     \o Get(spot, "remarks", "No description"),
     tooltip |-> Get(spot, "name", "Unknown location"),
     color |-> Colors[(i % (Len(Colors) - 1)) + 1]]

\* the folium.Marker added for the i-th (0-based) valid spot
Marker(i, spot) ==
    [location |-> <<spot.coordinates.lat, spot.coordinates.lon>>,
     popup |-> "<b>" \o Get(spot, "name", "Unknown") \o "</b><br>"
                     \o Get(spot, "remarks", "No description"),
     tooltip |-> Get(spot, "name", "Unknown location"),
     color |-> Colors[(i % Len(Colors)) + 1]]

NoMap == [k |-> "none"]

\* create_map(spots): None, or the map with its centre and markers
CreateMap(spots) ==
    IF Len(spots) = 0 THEN NoMap
    ELSE LET valid_spots == SelectSeq(spots, IsValidSpot) IN
         IF valid_spots = <<>> THEN NoMap
         ELSE LET lats == [i \in 1..Len(valid_spots) |-> valid_spots[i].coordinates.lat]
                  lons == [i \in 1..Len(valid_spots) |-> valid_spots[i].coordinates.lon]
              IN  [k |-> "map",
                   location |-> <<Mean(lats), Mean(lons)>>,
                   markers |-> [i \in 1..Len(valid_spots) |-> Marker(i - 1, valid_spots[i])]]

-----------------------------------------------------------------------------
(* main: one run of the Streamlit script per user interaction *)

GenerationFailure == "Could not generate recommendations. Please try again."
ResolutionFailure == "Could not find coordinates for the recommended spots. Try a different location."
RenderFailure == "Could not create map for the selected spots."

Locations == {"", "P"}

NoSession == [spots_with_coords |-> PyNone, current_location |-> PyNone]
PyStr(x) == [k |-> "str", s |-> x]

\* locals and page of a script run that is starting
RunReset ==
    /\ spots_data' = PyNone
    /\ idx' = 1
    /\ spots_with_coords' = <<>>
    /\ spot_name' = ""
    /\ qi' = 1
    /\ issued' = <<>>
    /\ lastResp' = NoResp
    /\ firstMatch' = <<>>
    /\ geoRequests' = 0
    /\ queryLog' = <<>>
    /\ messages' = {}
    /\ map_obj' = NoMap
    /\ details' = <<>>
    /\ fault' = "none"
    /\ clearShown' = FALSE

\* the detail panel loop of main: the expanders rendered, and whether
\* spot['name'] or spot['remarks'] raised KeyError
RECURSIVE SpotDetails(_, _)
SpotDetails(spots, acc) ==
    IF spots = <<>> THEN [raised |-> FALSE, shown |-> acc]
    ELSE LET spot == Head(spots) IN
         IF "name" \notin DOMAIN spot \/ "remarks" \notin DOMAIN spot
         THEN [raised |-> TRUE, shown |-> acc]
         ELSE SpotDetails(Tail(spots),
                          Append(acc, [title |-> spot.name, body |-> spot.remarks]))

\* `if submitted:`, whatever the destination
AfterSubmit_NoLocationCheck(sub, loc) == IF sub THEN "gen_chain" ELSE "display"

\* `if submitted and location:` of main
AfterSubmit(sub, loc) == IF sub /\ loc # "" THEN "gen_chain" ELSE "display"

\* "Get Recommendations" pressed with the destination loc
SubmitTo(loc) ==
    /\ pc = "idle"
    /\ submitted' = TRUE
    /\ location' = loc
    /\ pc' = AfterSubmit(TRUE, loc)
    /\ stages' = IF AfterSubmit(TRUE, loc) = "gen_chain" THEN <<"generator">> ELSE <<>>
    /\ GenReset
    /\ RunReset
    /\ UNCHANGED <<outstanding, session, callerVars>>

Submit == \E loc \in Locations : SubmitTo(loc)

\* the failure branch leaves st.session_state as it is
SessionOnFailure_Keep(s) == s

\* `st.session_state.spots_with_coords = None` of the two failure branches
SessionOnFailure(s) == [s EXCEPT !.spots_with_coords = PyNone]

\* only the spots are stored
SessionOnSuccess_SpotsOnly(s, spots, loc) == [s EXCEPT !.spots_with_coords = PyList(spots)]

\* main lines 49-50: the spots and the destination are stored together
SessionOnSuccess(s, spots, loc) ==
    [spots_with_coords |-> PyList(spots), current_location |-> PyStr(loc)]

\* `if spots_data is not None:` in place of `if spots_data:`
AfterGenerator_NotNone(v) == IF v.k # "none" THEN "geo_loop" ELSE "display"

\* `if spots_data:` of main
AfterGenerator(v) == IF Truthy(v) THEN "geo_loop" ELSE "display"

\* main lines 41-43 and 54-56: get_recommendations returned
GenReturn ==
    /\ pc = "gen_ret"
    /\ spots_data' = genResult.val
    /\ IF AfterGenerator(genResult.val) = "geo_loop"
       THEN /\ pc' = "geo_loop"
            /\ stages' = Append(stages, "resolver")
            /\ UNCHANGED <<messages, session>>
       ELSE /\ pc' = "display"
            /\ messages' = messages \cup {GenerationFailure}
            /\ session' = SessionOnFailure(session)
            /\ UNCHANGED stages
    /\ GenReset
    /\ UNCHANGED <<outstanding, submitted, location, geoVars, map_obj, details, fault,
                   clearShown, callerVars>>

\* get_coordinates returns, main lines 47-53
GeoReturn ==
    /\ pc = "geo_loop"
    /\ idx > Len(spots_data.a)
    /\ pc' = "display"
    /\ IF Len(spots_with_coords) > 0
       THEN /\ session' = SessionOnSuccess(session, spots_with_coords, location)
            /\ UNCHANGED messages
       ELSE /\ messages' = messages \cup {ResolutionFailure}
            /\ session' = SessionOnFailure(session)
    /\ UNCHANGED <<outstanding, genVars, runVars, geoVars, stages, map_obj, details, fault,
                   clearShown, callerVars>>

\* main lines 59-76: the results block
Display ==
    /\ pc = "display"
    /\ pc' = "idle"
    /\ IF Truthy(session.spots_with_coords)
       THEN LET m == CreateMap(session.spots_with_coords.a)
                dp == SpotDetails(session.spots_with_coords.a, <<>>)
            IN  /\ stages' = Append(stages, "assembler")
                /\ map_obj' = m
                /\ messages' = IF m = NoMap THEN messages \cup {RenderFailure} ELSE messages
                /\ details' = dp.shown
                /\ fault' = IF dp.raised THEN "display" ELSE fault
                /\ clearShown' = ~dp.raised
       ELSE UNCHANGED <<stages, map_obj, messages, details, fault, clearShown>>
    /\ UNCHANGED <<outstanding, genVars, runVars, geoVars, session, callerVars>>

\* any other widget interaction: the script runs with submitted = False
Rerun ==
    /\ pc = "idle"
    /\ submitted' = FALSE
    /\ pc' = AfterSubmit(FALSE, location)
    /\ UNCHANGED location
    /\ stages' = <<>>
    /\ GenReset
    /\ RunReset
    /\ UNCHANGED <<outstanding, session, callerVars>>

\* "Clear Results" pressed: the script runs up to the button, resets the
\* session state and st.rerun() runs it again with nothing retained
Clear ==
    /\ pc = "idle"
    /\ clearShown
    /\ pc' = "idle"
    /\ submitted' = FALSE
    /\ UNCHANGED location
    /\ session' = NoSession
    /\ stages' = <<>>
    /\ GenReset
    /\ RunReset
    /\ UNCHANGED <<outstanding, callerVars>>

-----------------------------------------------------------------------------
(* Texts the whole pipeline is exercised on *)

PipeElems == {"oFull", "oNoRem", "oNoName", "num"}

\* the JSON array literal with the given elements
RECURSIVE ArrayTail(_)
ArrayTail(elems) ==
    IF elems = <<>> THEN <<"]">>
    ELSE <<",", Head(elems)>> \o ArrayTail(Tail(elems))
ArrayText(elems) ==
    IF elems = <<>> THEN <<"[", "]">>
    ELSE <<"[", Head(elems)>> \o ArrayTail(Tail(elems))

\* an array of up to MaxSpots elements, bare, after a word of prose or as
\* the only member of an object; one object; prose
PipeTexts ==
    {ArrayText(e) : e \in BSeq(PipeElems, MaxSpots)}
        \cup {<<"p">> \o ArrayText(e) : e \in BSeq(PipeElems, MaxSpots)}
        \cup {<<"{">> \o ArrayText(e) \o <<"}">> : e \in BSeq(PipeElems, MaxSpots)}
        \cup {<<e>> : e \in PipeElems}
        \cup {<<"p">>}

-----------------------------------------------------------------------------
(* Specifications *)

\* the script and the handlers before anything ran
InitRun ==
    /\ pc = "idle"
    /\ outstanding = <<>>
    /\ submitted = FALSE
    /\ queryLog = <<>>
    /\ llmRequests = 0
    /\ path = "none"
    /\ llmErr = FALSE
    /\ response = PyNone
    /\ fb_response = <<>>
    /\ genResult = Returned(PyNone)
    /\ location = ""
    /\ spots_data = PyNone
    /\ idx = 1
    /\ spots_with_coords = <<>>
    /\ spot_name = ""
    /\ qi = 1
    /\ issued = <<>>
    /\ lastResp = NoResp
    /\ firstMatch = <<>>
    /\ geoRequests = 0
    /\ session = NoSession
    /\ stages = <<>>
    /\ messages = {}
    /\ map_obj = NoMap
    /\ details = <<>>
    /\ fault = "none"
    /\ clearShown = FALSE

\* no handler is called by itself
NoCaller ==
    /\ stub = <<>>
    /\ spots_arg = <<>>
    /\ callNo = 0
    /\ out1 = <<>>
    /\ log1 = <<>>
    /\ map_in = <<>>

Init == InitRun /\ NoCaller

\* the two requests of get_recommendations, answered from PipeTexts
ChainStep ==
    /\ pc = "gen_chain"
    /\ outstanding # <<>>
    /\ \E o \in LLMOutcomes(PipeTexts) : ChainInvoke(o)

FallbackStep ==
    /\ pc = "gen_fallback"
    /\ outstanding # <<>>
    /\ \E o \in LLMOutcomes(PipeTexts) : FallbackInvoke(o)

\* requests.get answered by any of GeoResponses
GeoStep ==
    /\ pc = "geo_query"
    /\ outstanding # <<>>
    /\ \E r \in GeoResponses : GeoQuery(r)

\* the user session: submissions, reruns and clears
Next ==
    \/ Submit
    \/ LLMSend
    \/ ChainStep
    \/ FallbackStep
    \/ FallbackParse
    \/ GenReturn
    \/ GeoLoopHead
    \/ GeoSend
    \/ GeoStep
    \/ GeoReturn
    \/ Display
    \/ Rerun
    \/ Clear

Spec == Init /\ [][Next]_vars

\* the user session with two destinations and shorter arrays
SessionLocations == {"", "P", "Q"}
SessionElems == {"oFull", "oNoRem", "oNoName"}
SessionTexts == {ArrayText(e) : e \in BSeq(SessionElems, MaxSessionSpots)} \cup {<<"p">>}

SessionSubmit == \E loc \in SessionLocations : SubmitTo(loc)

SessionChainStep ==
    /\ pc = "gen_chain"
    /\ outstanding # <<>>
    /\ \E o \in LLMOutcomes(SessionTexts) : ChainInvoke(o)

SessionFallbackStep ==
    /\ pc = "gen_fallback"
    /\ outstanding # <<>>
    /\ \E o \in LLMOutcomes(SessionTexts) : FallbackInvoke(o)

\* requests.get answered by any of StubResponses
SessionGeoStep ==
    /\ pc = "geo_query"
    /\ outstanding # <<>>
    /\ \E r \in StubResponses : GeoQuery(r)

NextSession ==
    \/ SessionSubmit
    \/ LLMSend
    \/ SessionChainStep
    \/ SessionFallbackStep
    \/ FallbackParse
    \/ GenReturn
    \/ GeoLoopHead
    \/ GeoSend
    \/ SessionGeoStep
    \/ GeoReturn
    \/ Display
    \/ Rerun
    \/ Clear

SpecSession == Init /\ [][NextSession]_vars

\* get_recommendations alone, called again and again, on a failing request
\* and on every text of up to MaxTextLen tokens
CallGen ==
    /\ pc = "idle"
    /\ pc' = "gen_chain"
    /\ GenReset
    /\ UNCHANGED <<outstanding, runVars, geoVars, uiVars, callerVars>>

ReturnGen ==
    /\ pc = "gen_ret"
    /\ pc' = "idle"
    /\ GenReset
    /\ UNCHANGED <<outstanding, runVars, geoVars, uiVars, callerVars>>

\* the two requests, failing or answered by any text over GenTokens
GenChainStep ==
    /\ pc = "gen_chain"
    /\ outstanding # <<>>
    /\ \/ ChainInvoke(LLMError)
       \/ \E m \in 0..MaxTextLen : \E t \in [1..m -> GenTokens] : ChainInvoke(LLMText(t))

GenFallbackStep ==
    /\ pc = "gen_fallback"
    /\ outstanding # <<>>
    /\ \/ FallbackInvoke(LLMError)
       \/ \E m \in 0..MaxTextLen : \E t \in [1..m -> GenTokens] : FallbackInvoke(LLMText(t))

NextGen ==
    \/ CallGen
    \/ LLMSend
    \/ GenChainStep
    \/ GenFallbackStep
    \/ FallbackParse
    \/ ReturnGen

SpecGen == Init /\ [][NextGen]_vars

\* get_coordinates alone, called twice with the same candidates and the same
\* destination against a geocoding service that is a function of the query
GeoCandidates == {TokenValue(t) : t \in {"oFull", "oNoRem", "oNoName"}}
StubQueries ==
    UNION {{SearchQueries(n, "P")[i] : i \in 1..3} : n \in {"A", "B"}}

InitGeo ==
    /\ InitRun
    /\ stub \in [StubQueries -> StubResponses]
    /\ \E m \in 0..MaxSpots : spots_arg \in [1..m -> GeoCandidates]
    /\ callNo = 0
    /\ out1 = <<>>
    /\ log1 = <<>>
    /\ map_in = <<>>

\* how the call of get_coordinates that is over ended
Outcome == [raised |-> fault = "get_coordinates", val |-> spots_with_coords]

\* a list kept on the handler: it still holds the spots of the call before
FreshResults_Kept(prev) == prev

\* line 95, `spots_with_coords = []`: a local list, new in every call
FreshResults(prev) == <<>>

\* the caller: get_coordinates(spots_arg, "P")
CallGeo ==
    /\ pc = "idle"
    /\ callNo < 2
    /\ callNo' = callNo + 1
    /\ out1' = IF callNo = 1 THEN Outcome ELSE out1
    /\ log1' = IF callNo = 1 THEN queryLog ELSE log1
    /\ pc' = "geo_loop"
    /\ location' = "P"
    /\ spots_data' = PyList(spots_arg)
    /\ idx' = 1
    /\ spots_with_coords' = FreshResults(spots_with_coords)
    /\ spot_name' = ""
    /\ qi' = 1
    /\ issued' = <<>>
    /\ lastResp' = NoResp
    /\ firstMatch' = <<>>
    /\ queryLog' = <<>>
    /\ fault' = "none"
    /\ UNCHANGED <<outstanding, genVars, submitted, geoRequests, session, stages, messages,
                   map_obj, details, clearShown, stub, spots_arg, map_in>>

\* `return spots_with_coords` of get_coordinates
ReturnGeo ==
    /\ pc = "geo_loop"
    /\ idx > Len(spots_data.a)
    /\ pc' = "idle"
    /\ UNCHANGED <<outstanding, genVars, runVars, geoVars, uiVars, callerVars>>

\* requests.get answered by the stub
StubStep ==
    /\ pc = "geo_query"
    /\ outstanding # <<>>
    /\ GeoQuery(stub[Head(outstanding).query])

NextGeo ==
    \/ CallGeo
    \/ GeoLoopHead
    \/ GeoSend
    \/ StubStep
    \/ ReturnGeo

SpecGeo == InitGeo /\ [][NextGeo]_vars

\* create_map alone, on every list of up to MaxMapSpots of these spots: three
\* with coordinates, one without, one whose coordinates lack lat, one whose
\* coordinates lack lon
MapSpots ==
    { [name |-> "A", type |-> "t", remarks |-> "r", coordinates |-> [lat |-> 10, lon |-> 20]],
      [name |-> "B", type |-> "t", coordinates |-> [lat |-> 14, lon |-> 14]],
      [type |-> "t", remarks |-> "r", coordinates |-> [lat |-> 22, lon |-> 10]],
      [name |-> "A", type |-> "t", remarks |-> "r"],
      [name |-> "A", type |-> "t", remarks |-> "r", coordinates |-> [lon |-> 20]],
      [name |-> "B", type |-> "t", coordinates |-> [lat |-> 10]] }

InitMap ==
    /\ InitRun
    /\ stub = <<>>
    /\ spots_arg = <<>>
    /\ callNo = 0
    /\ out1 = <<>>
    /\ log1 = <<>>
    /\ \E m \in 0..MaxMapSpots : map_in \in [1..m -> MapSpots]

\* the caller: create_map(map_in)
CallMap ==
    /\ pc = "idle"
    /\ pc' = "map_ret"
    /\ map_obj' = CreateMap(map_in)
    /\ UNCHANGED <<outstanding, genVars, runVars, geoVars, session, stages, messages,
                   details, fault, clearShown, callerVars>>

NextMap == CallMap

SpecMap == InitMap /\ [][NextMap]_vars

-----------------------------------------------------------------------------
(* Properties *)

\* C1: during one call of get_recommendations at most one request is sent to
\* the text-generation API, whatever its outcome.
C1_OneRequestPerCall == llmRequests <= 1

\* C2: get_coordinates never raises to its caller, whatever candidates the
\* generator produced and however the geocoding service behaves.
C2_ResolverNeverRaises == fault # "get_coordinates"

\* the three phrasings for a candidate name n and a destination d
Phrasings(n, d) == << n \o ", " \o d, n, d \o " " \o n >>

\* C3: the queries sent for a candidate are a prefix of "<name>, <destination>",
\* "<name>", "<destination> <name>", in that order and without repetition (so
\* at most three); after a failed attempt that was not the third the next
\* phrasing is tried; after a match no further query is sent.
C3_PhrasingsInOrder ==
    /\ Len(issued) <= 3
    /\ \A i \in 1..Len(issued) : issued[i] = Phrasings(spot_name, location)[i]
    /\ \A i, j \in 1..Len(issued) : i # j => issued[i] # issued[j]
    /\ (issued # <<>> /\ ~IsMatch(lastResp) /\ Len(issued) < 3)
          => (pc = "geo_query" /\ qi = Len(issued) + 1)
    /\ (issued # <<>> /\ IsMatch(lastResp)) => pc # "geo_query"

\* the third phrasing matched after the first two failed
C3_Witness ==
    /\ pc = "geo_loop"
    /\ Len(issued) = 3
    /\ IsMatch(lastResp)

\* the candidates cands[1..Len(fm)] that have a matching response in fm, in
\* order, each with the latitude / longitude of the first result of that response
RECURSIVE MatchedSpots(_, _, _)
MatchedSpots(cands, fm, i) ==
    IF i > Len(fm) THEN <<>>
    ELSE IF fm[i] = <<>> THEN MatchedSpots(cands, fm, i + 1)
    ELSE LET first == fm[i][1].data.a[1]
             num == [x \in {"10", "20"} |-> IF x = "10" THEN 10 ELSE 20]
             c == cands[i].d
         IN  << [key \in DOMAIN c \cup {"coordinates"} |->
                    IF key = "coordinates"
                    THEN [lat |-> num[first.lat], lon |-> num[first.lon]]
                    ELSE c[key]] >>
             \o MatchedSpots(cands, fm, i + 1)

\* C4: the list built by get_coordinates is exactly the order-preserving
\* subsequence of the candidates for which a phrasing matched, each carrying
\* the coordinates of the first result of its first matching phrasing; a
\* candidate none of whose phrasings matched is left out and nothing else
\* changes; equal candidates are each resolved on their own.
C4_OutputIsMatchedSubsequence ==
    spots_data.k = "arr" =>
        spots_with_coords = MatchedSpots(spots_data.a, firstMatch, 1)

\* get_coordinates returned after dropping the first candidate and resolving
\* the second from a response with two results
C4_Witness ==
    /\ pc = "display"
    /\ Len(firstMatch) = 2
    /\ firstMatch[1] = <<>>
    /\ firstMatch[2] # <<>>
    /\ Len(firstMatch[2][1].data.a) = 2
    /\ Len(spots_with_coords) = 1

RunEnded == pc \in {"display", "idle"}

\* C5: in one submission the stages run in the order generator, resolver,
\* assembler, each only after the one before produced a non-empty result: an
\* empty result of get_recommendations means no geocoding request and the
\* generation failure message; an empty result of get_coordinates means no
\* call of create_map and the resolution failure message.
C5_StagesShortCircuit ==
    /\ \A i \in 1..Len(stages) :
          stages[1] = "generator" => stages[i] = <<"generator", "resolver", "assembler">>[i]
    /\ geoRequests > 0 => (Len(stages) >= 2 /\ Truthy(spots_data))
    /\ Len(stages) >= 2 => Truthy(spots_data)
    /\ (Len(stages) = 3 /\ stages[1] = "generator") => spots_with_coords # <<>>
    /\ (RunEnded /\ stages # <<>> /\ stages[1] = "generator" /\ ~Truthy(spots_data))
          => /\ stages = <<"generator">>
             /\ geoRequests = 0
             /\ GenerationFailure \in messages
             /\ map_obj = NoMap
    /\ (RunEnded /\ Len(stages) >= 2 /\ fault # "get_coordinates" /\ spots_with_coords = <<>>)
          => /\ stages = <<"generator", "resolver">>
             /\ ResolutionFailure \in messages
             /\ map_obj = NoMap

\* a run ended after every candidate failed to geocode
C5_Witness ==
    /\ pc = "idle"
    /\ stages = <<"generator", "resolver">>
    /\ fault = "none"
    /\ geoRequests >= 3
    /\ spots_with_coords = <<>>
    /\ ResolutionFailure \in messages

\* C6: the value returned by get_recommendations is empty or a sequence in
\* which every element is an object with a non-empty name.
C6_EveryElementNamed ==
    pc = "gen_ret" =>
        \/ genResult.val.k = "none"
        \/ /\ genResult.val.k = "arr"
           /\ \A i \in 1..Len(genResult.val.a) :
                 LET e == genResult.val.a[i] IN
                 /\ e.k = "obj"
                 /\ "name" \in DOMAIN e.d
                 /\ e.d.name # ""

HasBrackets(t) == (\E i \in 1..Len(t) : t[i] = "[") /\ (\E i \in 1..Len(t) : t[i] = "]")

\* the part of t from its first "[" to its last "]", both included
BracketSubstring(t) ==
    LET first == CHOOSE i \in 1..Len(t) : t[i] = "[" /\ \A j \in 1..(i - 1) : t[j] # "["
        last == CHOOSE i \in 1..Len(t) : t[i] = "]" /\ \A j \in (i + 1)..Len(t) : t[j] # "]"
    IN  SubSeq(t, first, last)

StrictInvalid(t) == JsonLoads(Strip(t)).raised
BracketInvalid(t) == ~HasBrackets(t) \/ JsonLoads(BracketSubstring(t)).raised

IsProse(s) == \A i \in 1..Len(s) : s[i] \in {"p", " "}
ProseWithArray(t) ==
    /\ HasBrackets(t)
    /\ ~BracketInvalid(t)
    /\ \E i, j \in 1..Len(t) :
          /\ SubSeq(t, i, j) = BracketSubstring(t)
          /\ IsProse(SubSeq(t, 1, i - 1))
          /\ IsProse(SubSeq(t, j + 1, Len(t)))

\* C8: when the strict parse of the output fails and the output is prose with
\* an embedded JSON array (text before its first "[" and / or after its last
\* "]"), the generator returns the array parsed from the first "[" to the
\* last "]".
C8_EmbeddedArrayExtracted ==
    (/\ pc = "gen_ret"
     /\ path = "fallback"
     /\ ~llmErr
     /\ StrictInvalid(fb_response)
     /\ ProseWithArray(fb_response))
        => genResult.val = JsonLoads(BracketSubstring(fb_response)).val

\* C9: a top-level value parsed as a single object is returned as a
\* one-element list holding it; the caller never receives a bare object.
C9_SingleObjectWrapped ==
    pc = "gen_ret" =>
        /\ genResult.val.k # "obj"
        /\ (path = "chain" /\ response.k = "obj") => genResult.val = PyList(<<response>>)

\* the output was the literal of one object
C9_Witness ==
    /\ pc = "gen_ret"
    /\ path = "chain"
    /\ response.k = "obj"
    /\ Len(genResult.val.a) = 1

\* C10: a displayed spot lacking `remarks` (or `name`) is tolerated: the
\* detail panel does not fail on it, and the popup and the panel show the
\* missing field as the empty string.
C10_MissingFieldsTolerated ==
    /\ fault # "display"
    /\ (pc = "idle" /\ map_obj # NoMap) =>
          \A i \in 1..Len(map_obj.markers) :
             LET spot == session.spots_with_coords.a[i] IN
             map_obj.markers[i].popup =
                "<b>" \o (IF "name" \in DOMAIN spot THEN spot.name ELSE "")
                      \o "</b><br>"
                      \o (IF "remarks" \in DOMAIN spot THEN spot.remarks ELSE "")

\* the spots of a list that have a coordinates entry with both lat and lon,
\* in the order of the list
RECURSIVE Located(_)
Located(spots) ==
    IF spots = <<>> THEN <<>>
    ELSE LET spot == Head(spots)
             has == /\ "coordinates" \in DOMAIN spot
                    /\ {"lat", "lon"} \subseteq DOMAIN spot.coordinates
         IN  (IF has THEN <<spot>> ELSE <<>>) \o Located(Tail(spots))

\* C11: create_map returns None exactly when no spot of its input has a
\* coordinates entry with both lat and lon (the empty list, or a list of
\* spots that all lack a coordinate); otherwise the map has exactly one pin
\* per such spot, at its coordinates, in input order, and none for the others.
C11_PinsAreLocatedSpots ==
    pc = "map_ret" =>
        LET v == Located(map_in) IN
        /\ (map_obj = NoMap) <=> (v = <<>>)
        /\ map_obj # NoMap =>
              /\ Len(map_obj.markers) = Len(v)
              /\ \A i \in 1..Len(v) :
                    /\ map_obj.markers[i].location = <<v[i].coordinates.lat, v[i].coordinates.lon>>
                    /\ map_obj.markers[i].tooltip =
                          (IF "name" \in DOMAIN v[i] THEN v[i].name ELSE "Unknown location")

\* a map of two pins made from a list that also holds a spot without
\* coordinates and a spot whose coordinates lack a field
C11_Witness ==
    /\ pc = "map_ret"
    /\ map_obj # NoMap
    /\ Len(map_obj.markers) = 2
    /\ \E i \in 1..Len(map_in) : "coordinates" \notin DOMAIN map_in[i]
    /\ \E i \in 1..Len(map_in) :
          "coordinates" \in DOMAIN map_in[i] /\ "lat" \notin DOMAIN map_in[i].coordinates

\* the palette of the claim and its size P
Palette == <<"red", "blue", "green", "purple", "orange">>

\* the 0-based positions in spots of its spots with a coordinate, in order
RECURSIVE LocatedPositions(_, _)
LocatedPositions(spots, j) ==
    IF j > Len(spots) THEN <<>>
    ELSE (IF Located(<<spots[j]>>) # <<>> THEN <<j - 1>> ELSE <<>>)
            \o LocatedPositions(spots, j + 1)

\* C12 as stated: the pin of a spot has the colour palette[position mod P],
\* where position is the position of the spot in the input of create_map.
C12_ColourByInputPosition ==
    (pc = "map_ret" /\ map_obj # NoMap) =>
        LET pos == LocatedPositions(map_in, 1) IN
        \A i \in 1..Len(map_obj.markers) :
           map_obj.markers[i].color = Palette[(pos[i] % Len(Palette)) + 1]

\* C12, amended: the i-th pin (0-based, counted among the pins, that is among
\* the spots that have a coordinate) has the colour palette[i mod P]; so pin
\* i and pin i + P have the same colour, the first min(N, P) pins have
\* pairwise distinct colours, and the colour of a pin depends on its
\* position only, not on the content of its spot.
C12_ColourByPinPosition ==
    (pc = "map_ret" /\ map_obj # NoMap) =>
        LET pins == map_obj.markers
            N == Len(pins)
            P == Len(Palette)
        IN  /\ \A i \in 1..N : pins[i].color = Palette[((i - 1) % P) + 1]
            /\ \A i \in 1..N : i + P <= N => pins[i].color = pins[i + P].color
            /\ \A i, j \in 1..N : (i < j /\ j <= P) => pins[i].color # pins[j].color

\* a map with more pins than the palette has colours
C12_Witness ==
    /\ pc = "map_ret"
    /\ map_obj # NoMap
    /\ Len(map_obj.markers) > Len(Palette)

\* C13: two calls of get_coordinates with the same candidates and the same
\* destination, against a geocoding service that answers as a function of
\* the query, end the same way (the same list, or both raising) and send the
\* same queries in the same order: nothing of the first call is left in the
\* handler for the second.
C13_SecondCallSame ==
    /\ callNo = 2 =>
          /\ Len(queryLog) <= Len(log1)
          /\ \A i \in 1..Len(queryLog) : queryLog[i] = log1[i]
    /\ (callNo = 2 /\ pc = "idle") =>
          /\ Outcome = out1
          /\ queryLog = log1

\* both calls are over; the first resolved some candidates, dropped others
\* and sent at least four queries
C13_Witness ==
    /\ callNo = 2
    /\ pc = "idle"
    /\ ~out1.raised
    /\ out1.val # <<>>
    /\ Len(out1.val) < Len(spots_arg)
    /\ Len(log1) >= 4

Retained == Truthy(session.spots_with_coords)

\* a failure message of this run means nothing is retained and nothing shown
C14_FailureLeavesNothing ==
    (GenerationFailure \in messages \/ ResolutionFailure \in messages) =>
        /\ session.spots_with_coords = PyNone
        /\ map_obj = NoMap
        /\ details = <<>>

\* the only step that leaves the script idle is the clear, and it resets both
\* retained fields
C14_ClearResetsBoth ==
    (pc = "idle" /\ pc' = "idle") =>
        (clearShown /\ session' = NoSession /\ map_obj' = NoMap /\ details' = <<>>)

\* results come back only when a submission stores what it resolved
C14_OnlySuccessRetains ==
    (~Retained /\ Retained') =>
        /\ submitted
        /\ location # ""
        /\ stages = <<"generator", "resolver">>
        /\ messages = {}
        /\ spots_with_coords # <<>>
        /\ session'.spots_with_coords = PyList(spots_with_coords)

\* C14: over any sequence of submissions, reruns and clears: a submission
\* that shows the generation or the resolution failure message leaves no
\* retained result, so the results of an earlier submission are not shown
\* after it; a clear resets the retained spots and the retained destination;
\* results are retained again only by a later successful submission.
C14_FailureAndClearDropResults ==
    /\ []C14_FailureLeavesNothing
    /\ [][C14_ClearResetsBoth /\ C14_OnlySuccessRetains]_vars

\* a run ended with the resolution failure after an earlier submission had
\* stored results and their destination
C14_Witness ==
    /\ pc = "idle"
    /\ ResolutionFailure \in messages
    /\ session.current_location # PyNone
    /\ session.spots_with_coords = PyNone

\* C15: the centre of the map is the arithmetic mean of the latitudes and of
\* the longitudes of the spots that have a coordinate, so it lies between
\* their smallest and largest value; when all of them share one coordinate
\* the centre is exactly that coordinate.
C15_CentreIsMean ==
    (pc = "map_ret" /\ map_obj # NoMap) =>
        LET v == Located(map_in)
            lats == {v[i].coordinates.lat : i \in 1..Len(v)}
            lons == {v[i].coordinates.lon : i \in 1..Len(v)}
        IN  /\ \E lo, hi \in lats : lo <= map_obj.location[1] /\ map_obj.location[1] <= hi
            /\ \E lo, hi \in lons : lo <= map_obj.location[2] /\ map_obj.location[2] <= hi
            /\ (\A i \in 1..Len(v) : v[i].coordinates = v[1].coordinates)
                  => map_obj.location = <<v[1].coordinates.lat, v[1].coordinates.lon>>

InGeo == pc \in {"geo_loop", "geo_query"}

\* steps get_coordinates can still take: one for the loop head and two for
\* each of the three requests of every candidate not yet done, one to return
GeoStepsLeft ==
    LET N == Len(spots_data.a)
        later == 7 * (N - idx) + 1
    IN  IF pc = "geo_loop" THEN later + 7
        ELSE later + (8 - 2 * qi) - (IF outstanding = <<>> THEN 0 ELSE 1)

\* at most one request is in flight; a text-generation request is in flight
\* only before any geocoding request, a geocoding request only for the
\* candidate being looked up; at most three requests per candidate were sent
C16_OneRequestInFlight ==
    /\ Len(outstanding) <= 1
    /\ \A i \in 1..Len(outstanding) :
          /\ outstanding[i].api = "llm" => (pc \in {"gen_chain", "gen_fallback"} /\ geoRequests = 0)
          /\ outstanding[i].api = "geo" => (pc = "geo_query" /\ outstanding[i].cand = idx)
    /\ geoRequests > 0 =>
          /\ spots_data.k = "arr"
          /\ geoRequests <= 3 * (IF idx <= Len(spots_data.a) THEN idx ELSE Len(spots_data.a))
    /\ InGeo => GeoStepsLeft > 0

\* a request is sent only when none is in flight; inside get_coordinates the
\* candidate position never goes back and every step brings the return nearer
C16_SequentialSteps ==
    /\ (geoRequests' = geoRequests + 1 \/ llmRequests' = llmRequests + 1) => outstanding = <<>>
    /\ (InGeo /\ InGeo') => (idx' >= idx /\ GeoStepsLeft' < GeoStepsLeft)

\* C16: within one submission the external calls are made one after the
\* other: at most one request (text generation or geocoding) is in flight,
\* every request for candidate i is answered before a request for candidate
\* i+1 is sent, and, every request being answered or timing out,
\* get_coordinates returns after at most 3 x N geocoding requests.
C16_CallsAreSequential ==
    /\ []C16_OneRequestInFlight
    /\ [][C16_SequentialSteps]_vars

\* get_coordinates returned after three requests for each of two candidates
C16_Witness ==
    /\ pc = "display"
    /\ spots_data.k = "arr"
    /\ Len(spots_data.a) = 2
    /\ geoRequests = 6

\* the retained spots are None or a non-empty list of spots that each carry
\* coordinates with lat and lon, and then a destination is retained too
C17_RetainedIsWellFormed ==
    \/ session.spots_with_coords = PyNone
    \/ /\ session.spots_with_coords.k = "arr"
       /\ Len(session.spots_with_coords.a) > 0
       /\ \A i \in 1..Len(session.spots_with_coords.a) :
             LET spot == session.spots_with_coords.a[i] IN
             /\ "coordinates" \in DOMAIN spot
             /\ {"lat", "lon"} \subseteq DOMAIN spot.coordinates
       /\ session.current_location \in {PyStr(loc) : loc \in SessionLocations \ {""}}

\* whenever the session changes and spots are retained afterwards, the step
\* is the running submission storing the spots it resolved together with
\* its own destination
C17_StoredWithOwnDestination ==
    (session' # session /\ Truthy(session'.spots_with_coords)) =>
        /\ submitted
        /\ session'.spots_with_coords = PyList(spots_with_coords)
        /\ session'.current_location = PyStr(location)

\* C17: in every reachable state the retained spots are None or a non-empty
\* list whose every spot has coordinates with lat and lon, and whenever they
\* are not None the retained destination is the destination of the
\* submission that produced them.
C17_RetainedSpotsAndDestination ==
    /\ []C17_RetainedIsWellFormed
    /\ [][C17_StoredWithOwnDestination]_vars

\* the results of a submission for "Q" are still retained, with "Q", after a
\* later submission for "P" ended in an uncaught exception
C17_Witness ==
    /\ pc = "idle"
    /\ submitted
    /\ location = "P"
    /\ fault = "get_coordinates"
    /\ Truthy(session.spots_with_coords)
    /\ session.current_location = PyStr("Q")

\* C18: in the composed pipeline every spot returned by get_coordinates
\* passes the filter of create_map, so a results block that was rendered
\* shows as many pins as detail-panel entries as retained spots (at most as
\* many as there were candidates), in the same order, and the message that
\* the map could not be created is never shown.
C18_PinsMatchDetails ==
    /\ Located(spots_with_coords) = spots_with_coords
    /\ spots_data.k = "arr" => Len(spots_with_coords) <= Len(spots_data.a)
    /\ RenderFailure \notin messages
    /\ (pc = "idle" /\ Retained /\ stages # <<>> /\ stages[Len(stages)] = "assembler") =>
          LET spots == session.spots_with_coords.a IN
          /\ map_obj # NoMap
          /\ Len(map_obj.markers) = Len(spots)
          /\ Len(details) = Len(spots)
          /\ \A i \in 1..Len(spots) :
                /\ map_obj.markers[i].location =
                      <<spots[i].coordinates.lat, spots[i].coordinates.lon>>
                /\ map_obj.markers[i].tooltip = details[i].title

\* C19: get_coordinates leaves the list it was given as it was: the same
\* candidates in the same order, none of them with a coordinates entry; the
\* coordinates are attached only to the copies that make up the result.
C19_InputUnchanged ==
    callNo >= 1 =>
        /\ spots_data = PyList(spots_arg)
        /\ \A i \in 1..Len(spots_data.a) : "coordinates" \notin DOMAIN spots_data.a[i].d
        /\ \A i \in 1..Len(spots_with_coords) : "coordinates" \in DOMAIN spots_with_coords[i]

\* a call returned after attaching coordinates to two candidates
C19_Witness ==
    /\ callNo >= 1
    /\ pc = "idle"
    /\ fault = "none"
    /\ Len(spots_with_coords) = 2

EmptySubmission == submitted /\ location = ""

\* during and after a submission with an empty destination no handler was
\* called, no request was sent and no failure message is shown; retained
\* results are displayed when the run is over
C20_NothingRequested ==
    EmptySubmission =>
        /\ stages \in {<<>>, <<"assembler">>}
        /\ llmRequests = 0
        /\ geoRequests = 0
        /\ outstanding = <<>>
        /\ messages = {}
        /\ (pc = "idle" /\ Retained) =>
              /\ map_obj # NoMap
              /\ Len(map_obj.markers) = Len(session.spots_with_coords.a)

\* C20: a submission with an empty destination sends no text-generation and
\* no geocoding request, shows no failure message and leaves the retained
\* spots and destination as they were, so results retained before it are
\* still displayed.
C20_EmptyDestinationIsNoOp ==
    /\ []C20_NothingRequested
    /\ [][(submitted' /\ location' = "") => session' = session]_vars

\* an empty submission ended with the earlier results on the page
C20_Witness ==
    /\ pc = "idle"
    /\ EmptySubmission
    /\ Retained
    /\ map_obj # NoMap
    /\ details # <<>>

====
